---- MODULE Spec2Model ----
(***************************************************************************)
(* A model of HTTPHeaderGenerator (src/算法.py): the device identifier     *)
(* cache file, the identifier generator, the URL preprocessing and SHA-1   *)
(* signature, and the generate_headers / verify_signature calls.           *)
(*                                                                         *)
(* A Python str is a sequence of one-character strings; None and a str are *)
(* the two cases of an optional argument (NoneValue, Some(v)).             *)
(***************************************************************************)
EXTENDS Integers, Sequences, FiniteSets, TLC

VARIABLES
    file,      \* the file '.aduid_cache': [state, content]
    signers,   \* per HTTPHeaderGenerator instance: [pc, x_aduid, new_aduid]
    ret        \* the value the last call returned, until the caller takes it

vars == <<file, signers, ret>>

----------------------------------------------------------------------------
\* Bounds of the model

NumSigners == 2
MaxUrlLen == 4
MaxStride == 6

----------------------------------------------------------------------------
\* Python values

NoneValue == [some |-> FALSE, val |-> <<>>]
Some(v) == [some |-> TRUE, val |-> v]

Contains(s, c) == \E i \in 1..Len(s) : s[i] = c

FirstIndex(s, c) == CHOOSE i \in 1..Len(s) : s[i] = c /\ \A j \in 1..(i - 1) : s[j] # c

RECURSIVE split(_, _)
\* str.split(sep) for a one-character separator
split(s, sep) ==
    IF ~Contains(s, sep) THEN <<s>>
    ELSE LET i == FirstIndex(s, sep)
         IN <<SubSeq(s, 1, i - 1)>> \o split(SubSeq(s, i + 1, Len(s)), sep)

RECURSIVE join(_, _)
\* sep.join(parts)
join(sep, parts) ==
    IF Len(parts) = 0 THEN <<>>
    ELSE IF Len(parts) = 1 THEN parts[1]
    ELSE parts[1] \o <<sep>> \o join(sep, Tail(parts))

RECURSIVE replace(_, _, _)
\* str.replace(old, new) for a one-character old
replace(s, old, new) ==
    IF Len(s) = 0 THEN <<>>
    ELSE (IF Head(s) = old THEN new ELSE <<Head(s)>>) \o replace(Tail(s), old, new)

Whitespace == {" ", "\t", "\n", "\r"}

RECURSIVE lstrip(_)
lstrip(s) == IF Len(s) > 0 /\ Head(s) \in Whitespace THEN lstrip(Tail(s)) ELSE s

RECURSIVE rstrip(_)
rstrip(s) ==
    IF Len(s) > 0 /\ s[Len(s)] \in Whitespace THEN rstrip(SubSeq(s, 1, Len(s) - 1)) ELSE s

\* str.strip()
strip(s) == rstrip(lstrip(s))

HexChars == <<"0", "1", "2", "3", "4", "5", "6", "7", "8", "9", "a", "b", "c", "d", "e", "f">>

\* format(d, 'x') for d in 0..15
format_x(d) == HexChars[d + 1]

RECURSIVE str_int(_)
\* str(n) for an int n >= 0
str_int(n) == IF n < 10 THEN <<HexChars[n + 1]>> ELSE str_int(n \div 10) \o <<HexChars[(n % 10) + 1]>>

----------------------------------------------------------------------------
\* hashlib.sha1(m.encode('utf-8')).hexdigest(), FIPS 180-4.  A 32-bit word is
\* the pair <<high 16 bits, low 16 bits>>.

\* str.encode('utf-8') of the characters the model uses (all of them ASCII)
Ascii ==
    (" " :> 32) @@ ("%" :> 37) @@ ("&" :> 38) @@ ("'" :> 39) @@ ("-" :> 45) @@
    ("/" :> 47) @@ ("0" :> 48) @@ ("1" :> 49) @@ ("2" :> 50) @@ ("3" :> 51) @@
    ("4" :> 52) @@ ("5" :> 53) @@ ("6" :> 54) @@ ("7" :> 55) @@ ("8" :> 56) @@
    ("9" :> 57) @@ (":" :> 58) @@ ("=" :> 61) @@ ("?" :> 63) @@ ("A" :> 65) @@
    ("B" :> 66) @@ ("C" :> 67) @@ ("D" :> 68) @@ ("E" :> 69) @@ ("F" :> 70) @@
    ("a" :> 97) @@ ("b" :> 98) @@ ("c" :> 99) @@ ("d" :> 100) @@ ("e" :> 101) @@
    ("f" :> 102) @@ ("r" :> 114) @@ ("x" :> 120)

encode_utf8(s) == [i \in 1..Len(s) |-> Ascii[s[i]]]

W16 == 65536

RECURSIVE Bits3(_, _, _, _, _)
\* the n low bits of b, c, d combined bit by bit: Ch, Parity or Maj
Bits3(kind, b, c, d, n) ==
    IF n = 0 THEN 0
    ELSE LET bb == b % 2
             cb == c % 2
             db == d % 2
             r == CASE kind = "ch" -> IF bb = 1 THEN cb ELSE db
                    [] kind = "parity" -> (bb + cb + db) % 2
                    [] kind = "maj" -> IF bb + cb + db >= 2 THEN 1 ELSE 0
         IN r + 2 * Bits3(kind, b \div 2, c \div 2, d \div 2, n - 1)

F3(kind, B, C, D) ==
    <<Bits3(kind, B[1], C[1], D[1], 16), Bits3(kind, B[2], C[2], D[2], 16)>>

Xor2(A, B) == F3("parity", A, B, <<0, 0>>)

\* addition modulo 2^32
Add32(A, B) ==
    LET lo == A[2] + B[2]
        hi == A[1] + B[1] + (lo \div W16)
    IN <<hi % W16, lo % W16>>

RECURSIVE Pow2(_)
Pow2(n) == IF n = 0 THEN 1 ELSE 2 * Pow2(n - 1)

\* rotate left by n in {1, 5, 30}
Rotl(A, n) ==
    LET X == IF n < 16 THEN A ELSE <<A[2], A[1]>>
        m == IF n < 16 THEN n ELSE n - 16
        p == Pow2(m)
        q == Pow2(16 - m)
    IN <<((X[1] * p) % W16) + (X[2] \div q), ((X[2] * p) % W16) + (X[1] \div q)>>

NextW(W) ==
    LET t == Len(W) + 1
    IN Append(W, Rotl(Xor2(Xor2(W[t - 3], W[t - 8]), Xor2(W[t - 14], W[t - 16])), 1))

RECURSIVE Extend(_, _)
\* the message schedule W extended by k >= 1 words (each half is evaluated
\* before the next is started)
Extend(W, k) ==
    IF k = 1 THEN NextW(W)
    ELSE CHOOSE r \in {Extend(W1, k - (k \div 2)) : W1 \in {Extend(W, k \div 2)}} : TRUE

RoundK(t) ==
    IF t < 20 THEN <<23170, 31129>>
    ELSE IF t < 40 THEN <<28377, 60321>>
    ELSE IF t < 60 THEN <<36635, 48348>>
    ELSE <<51810, 49622>>

RoundF(t) == IF t < 20 THEN "ch" ELSE IF t < 40 THEN "parity" ELSE IF t < 60 THEN "maj" ELSE "parity"

Round(W, t, h) ==
    LET temp == Add32(Add32(Add32(Add32(Rotl(h[1], 5), F3(RoundF(t), h[2], h[3], h[4])),
                                  h[5]), W[t + 1]), RoundK(t))
    IN <<temp, h[1], Rotl(h[2], 30), h[3], h[4]>>

RECURSIVE Rounds(_, _, _, _)
\* rounds lo .. hi - 1 applied to h
Rounds(W, lo, hi, h) ==
    IF hi = lo + 1 THEN Round(W, lo, h)
    ELSE LET mid == (lo + hi) \div 2
         IN CHOOSE r \in {Rounds(W, mid, hi, h1) : h1 \in {Rounds(W, lo, mid, h)}} : TRUE

H0 == << <<26437, 8961>>, <<61389, 43913>>, <<39098, 56574>>, <<4146, 21622>>, <<50130, 57840>> >>

Block(h, bytes) ==
    LET W0 == [i \in 1..16 |-> <<bytes[4 * i - 3] * 256 + bytes[4 * i - 2],
                                 bytes[4 * i - 1] * 256 + bytes[4 * i]>>]
        r == Rounds(Extend(W0, 64), 0, 80, h)
    IN [i \in 1..5 |-> Add32(h[i], r[i])]

Pad(bytes) ==
    LET n == Len(bytes)
        z == (119 - n) % 64
        bits == n * 8
    IN bytes \o <<128>> \o [i \in 1..z |-> 0] \o
       <<0, 0, 0, 0, (bits \div 16777216) % 256, (bits \div 65536) % 256,
         (bits \div 256) % 256, bits % 256>>

RECURSIVE Blocks(_, _)
Blocks(h, bytes) ==
    IF Len(bytes) = 0 THEN h
    ELSE Blocks(Block(h, SubSeq(bytes, 1, 64)), SubSeq(bytes, 65, Len(bytes)))

Hex16(v) ==
    <<HexChars[(v \div 4096) + 1], HexChars[((v \div 256) % 16) + 1],
      HexChars[((v \div 16) % 16) + 1], HexChars[(v % 16) + 1]>>

sha1_hexdigest(m) ==
    LET h == Blocks(H0, Pad(encode_utf8(m)))
    IN Hex16(h[1][1]) \o Hex16(h[1][2]) \o Hex16(h[2][1]) \o Hex16(h[2][2]) \o
       Hex16(h[3][1]) \o Hex16(h[3][2]) \o Hex16(h[4][1]) \o Hex16(h[4][2]) \o
       Hex16(h[5][1]) \o Hex16(h[5][2])

----------------------------------------------------------------------------
\* HTTPHeaderGenerator._generate_uuid

UuidDigits == 32

HyphenAfter == {7, 11, 15, 19}

\* UuidStep with the hyphen test made before the digit is appended
UuidStep_HyphenFirst(result, i, d) ==
    LET r1 == IF i \in HyphenAfter THEN result \o <<"-">> ELSE result
    IN r1 \o <<format_x(d)>>

\* one iteration of the loop: the digit drawn, then the hyphen
UuidStep(result, i, d) ==
    LET r1 == result \o <<format_x(d)>>
    IN IF i \in HyphenAfter THEN r1 \o <<"-">> ELSE r1

RECURSIVE UuidLoop(_, _, _)
UuidLoop(i, result, draws) ==
    IF i = UuidDigits THEN result
    ELSE UuidLoop(i + 1, UuidStep(result, i, draws[i + 1]), draws)

\* draws[i + 1] is what random.randint(0, 15) returns in iteration i
_generate_uuid(draws) == UuidLoop(0, <<>>, draws)

\* A random source: the 32 values it returns next
DrawsOf(a, b) == [i \in 1..UuidDigits |-> (a * i + b) % 16]

----------------------------------------------------------------------------
\* The inputs of the model

\* URLs: no '?', a query, quotes in the query, a quote in the base path only,
\* several '?', the empty string
Urls ==
    { <<"a">>,
      <<"a", "?", "b", "=", "1">>,
      <<"a", "?", "b", "=", "'", "c", "'">>,
      <<"a", "'", "b", "?", "c">>,
      <<"a", "?", "b", "?", "'", "c">>,
      <<>> }

\* what random.randint returns during one _generate_uuid call
RandomSources == {DrawsOf(1, 0), DrawsOf(3, 5)}

\* what time.time() returns
ClockValues == {1756460115}

FixedTimestamp == <<"1", "7">>
FixedRequestId == <<"r", "1">>
FixedAduid == <<"a", "d">>

RequestIdArgs == {NoneValue, Some(<<>>), Some(FixedRequestId)}
TimestampArgs == {NoneValue, Some(<<>>), Some(FixedTimestamp)}
AduidArgs == {NoneValue, Some(<<>>), Some(FixedAduid)}

\* an identifier an earlier run left in the file
StoredAduid == _generate_uuid(DrawsOf(5, 2))

\* the file when the first signer is constructed: absent, holding an
\* identifier (as written, or with whitespace around it), or unreadable
InitialFiles ==
    { [state |-> "absent", content |-> <<>>],
      [state |-> "present", content |-> StoredAduid],
      [state |-> "present", content |-> <<" ">> \o StoredAduid \o <<"\n">>],
      [state |-> "denied", content |-> StoredAduid] }

----------------------------------------------------------------------------
\* HTTPHeaderGenerator._get_timestamp

_get_timestamp(now) == str_int(now)

----------------------------------------------------------------------------
\* HTTPHeaderGenerator._generate_signature

\* processed_url with only the first query part kept (url_parts[1] for url_parts[1:])
processed_url_FirstPart(url) ==
    IF Contains(url, "?")
    THEN LET url_parts == split(url, "?")
         IN url_parts[1] \o <<"?">> \o replace(url_parts[2], "'", <<"%", "2", "7">>)
    ELSE url

\* 1. the URL preprocessing
processed_url(url) ==
    IF Contains(url, "?")
    THEN LET url_parts == split(url, "?")
             base_url == url_parts[1]
             query_parts == Tail(url_parts)
         IN IF Len(query_parts) > 0
            THEN base_url \o <<"?">> \o replace(join("?", query_parts), "'", <<"%", "2", "7">>)
            ELSE url
    ELSE url

\* 2. the signing string
sign_string(url, timestamp, request_id) ==
    processed_url(url) \o <<" ">> \o timestamp \o <<" ">> \o request_id

\* the strings the calls of the model hash or report, hashed once
ModelTimestamps == {<<>>, FixedTimestamp} \cup {_get_timestamp(now) : now \in ClockValues}
ModelRequestIds == {<<>>, FixedRequestId} \cup {_generate_uuid(d) : d \in RandomSources}
ModelAduids == {FixedAduid}
ModelMessages ==
    { u \o <<" ">> \o t \o <<" ">> \o r :
        u \in Urls \cup {processed_url(v) : v \in Urls},
        t \in ModelTimestamps, r \in ModelRequestIds \cup ModelAduids }

Sha1Table == [m \in ModelMessages |-> sha1_hexdigest(m)]

\* 3. the SHA-1 hash
\* (a message outside the table is evaluated once, then hashed)
sha1(m) ==
    CHOOSE r \in {IF v \in DOMAIN Sha1Table THEN Sha1Table[v] ELSE sha1_hexdigest(v) : v \in {m}} : TRUE

_generate_signature(url, timestamp, request_id) ==
    sha1(sign_string(url, timestamp, request_id))

----------------------------------------------------------------------------
\* HTTPHeaderGenerator.generate_headers

\* generate_headers testing "not request_id" for "request_id is None"
generate_headers_Falsy(self, url, request_id, timestamp, aduid, draws, now) ==
    LET rid == IF ~request_id.some \/ request_id.val = <<>> THEN _generate_uuid(draws)
               ELSE request_id.val
        ts == IF ~timestamp.some \/ timestamp.val = <<>> THEN _get_timestamp(now)
              ELSE timestamp.val
        ad == IF ~aduid.some THEN self.x_aduid.val ELSE aduid.val
        signature == _generate_signature(url, ts, rid)
    IN [k \in {"X-Request-Id", "X-Timestamp", "X-Aduid", "X-Signature"} |->
          CASE k = "X-Request-Id" -> rid
            [] k = "X-Timestamp" -> ts
            [] k = "X-Aduid" -> ad
            [] k = "X-Signature" -> signature]

\* generate_headers signing the device identifier the caller passes in place
\* of the request id
generate_headers_SignsAduid(self, url, request_id, timestamp, aduid, draws, now) ==
    LET rid == IF ~request_id.some THEN _generate_uuid(draws) ELSE request_id.val
        ts == IF ~timestamp.some THEN _get_timestamp(now) ELSE timestamp.val
        ad == IF ~aduid.some THEN self.x_aduid.val ELSE aduid.val
        signature == _generate_signature(url, ts, IF aduid.some THEN ad ELSE rid)
    IN [k \in {"X-Request-Id", "X-Timestamp", "X-Aduid", "X-Signature"} |->
          CASE k = "X-Request-Id" -> rid
            [] k = "X-Timestamp" -> ts
            [] k = "X-Aduid" -> ad
            [] k = "X-Signature" -> signature]

\* self is the signer's record; draws and now are what the random source and
\* the clock return if they are asked
generate_headers(self, url, request_id, timestamp, aduid, draws, now) ==
    LET rid == IF ~request_id.some THEN _generate_uuid(draws) ELSE request_id.val
        ts == IF ~timestamp.some THEN _get_timestamp(now) ELSE timestamp.val
        ad == IF ~aduid.some THEN self.x_aduid.val ELSE aduid.val
        signature == _generate_signature(url, ts, rid)
    IN [k \in {"X-Request-Id", "X-Timestamp", "X-Aduid", "X-Signature"} |->
          CASE k = "X-Request-Id" -> rid
            [] k = "X-Timestamp" -> ts
            [] k = "X-Aduid" -> ad
            [] k = "X-Signature" -> signature]

----------------------------------------------------------------------------
\* HTTPHeaderGenerator.verify_signature

LowerOf(c) ==
    CASE c = "A" -> "a" [] c = "B" -> "b" [] c = "C" -> "c" [] c = "D" -> "d"
      [] c = "E" -> "e" [] c = "F" -> "f" [] OTHER -> c

\* verify_signature comparing the signatures without regard to case
verify_signature_NoCase(url, expected_signature, timestamp, request_id) ==
    LET calculated_signature == _generate_signature(url, timestamp, request_id)
    IN [url |-> url,
        timestamp |-> timestamp,
        request_id |-> request_id,
        sign_string |-> url \o <<" ">> \o timestamp \o <<" ">> \o request_id,
        expected_signature |-> expected_signature,
        calculated_signature |-> calculated_signature,
        match |-> (calculated_signature =
                      [i \in 1..Len(expected_signature) |-> LowerOf(expected_signature[i])])]

verify_signature(url, expected_signature, timestamp, request_id) ==
    LET calculated_signature == _generate_signature(url, timestamp, request_id)
    IN [url |-> url,
        timestamp |-> timestamp,
        request_id |-> request_id,
        sign_string |-> url \o <<" ">> \o timestamp \o <<" ">> \o request_id,
        expected_signature |-> expected_signature,
        calculated_signature |-> calculated_signature,
        match |-> (calculated_signature = expected_signature)]

----------------------------------------------------------------------------
\* The signers and the file

Signers == 1..NumSigners

\* not constructed yet
NewSigner == [pc |-> "idle", x_aduid |-> NoneValue, new_aduid |-> NoneValue]

\* constructed, holding device identifier a
ReadySigner(a) == [pc |-> "ready", x_aduid |-> Some(a), new_aduid |-> NoneValue]

NoCall == [op |-> "none"]

\* a construction is between its first and its last step
InProgress(s) == signers[s].pc \in {"opened", "not_found", "generated", "writing"}

\* no construction is in progress and no returned value is pending
Quiescent == ret = NoCall /\ \A s \in Signers : ~InProgress(s)

----------------------------------------------------------------------------
\* HTTPHeaderGenerator.__init__ and _get_or_create_aduid, step by step

\* OpenRead with every OSError caught ("except OSError" for "except FileNotFoundError")
OpenRead_CatchAll(s) ==
    /\ signers[s].pc = "idle"
    /\ signers' = [signers EXCEPT ![s].pc =
                      CASE file.state = "absent" -> "not_found"
                        [] file.state = "denied" -> "not_found"
                        [] OTHER -> "opened"]
    /\ UNCHANGED <<file, ret>>

\* open('.aduid_cache', 'r'): FileNotFoundError is caught, any other OSError
\* leaves _get_or_create_aduid and __init__
OpenRead(s) ==
    /\ signers[s].pc = "idle"
    /\ signers' = [signers EXCEPT ![s].pc =
                      CASE file.state = "absent" -> "not_found"
                        [] file.state = "denied" -> "failed"
                        [] OTHER -> "opened"]
    /\ UNCHANGED <<file, ret>>

\* f.read().strip(), returned and assigned to self.x_aduid
Read(s) ==
    /\ signers[s].pc = "opened"
    /\ signers' = [signers EXCEPT ![s].pc = "ready",
                                  ![s].x_aduid = Some(strip(file.content))]
    /\ UNCHANGED <<file, ret>>

\* new_aduid = self._generate_uuid()
Generate(s) ==
    /\ signers[s].pc = "not_found"
    /\ \E draws \in RandomSources :
           signers' = [signers EXCEPT ![s].pc = "generated",
                                      ![s].new_aduid = Some(_generate_uuid(draws))]
    /\ UNCHANGED <<file, ret>>

\* open('.aduid_cache', 'w') creates the file or truncates it
OpenWrite(s) ==
    /\ signers[s].pc = "generated"
    /\ file' = [state |-> "present", content |-> <<>>]
    /\ signers' = [signers EXCEPT ![s].pc = "writing"]
    /\ UNCHANGED ret

\* Write with the file closed before anything is written to it
Write_Nothing(s) ==
    /\ signers[s].pc = "writing"
    /\ signers' = [signers EXCEPT ![s].pc = "ready",
                                  ![s].x_aduid = signers[s].new_aduid]
    /\ UNCHANGED <<file, ret>>

\* Write that keeps what another signer has written meanwhile
Write_FirstWins(s) ==
    /\ signers[s].pc = "writing"
    /\ file' = [state |-> "present",
                content |-> IF Len(file.content) > 0 THEN file.content
                            ELSE signers[s].new_aduid.val]
    /\ signers' = [signers EXCEPT ![s].pc = "ready",
                                  ![s].x_aduid = signers[s].new_aduid]
    /\ UNCHANGED ret

\* f.write(new_aduid), the file closed, new_aduid returned and assigned to
\* self.x_aduid
Write(s) ==
    /\ signers[s].pc = "writing"
    /\ file' = [state |-> "present", content |-> signers[s].new_aduid.val]
    /\ signers' = [signers EXCEPT ![s].pc = "ready",
                                  ![s].x_aduid = signers[s].new_aduid]
    /\ UNCHANGED ret

----------------------------------------------------------------------------
\* The calls on a constructed signer

CallGenerateHeaders(s, url, request_id, timestamp, aduid, draws, now) ==
    /\ signers[s].pc = "ready"
    /\ ret = NoCall
    /\ ret' = [op |-> "generate_headers", signer |-> s, url |-> url,
               request_id |-> request_id, timestamp |-> timestamp, aduid |-> aduid,
               headers |-> generate_headers(signers[s], url, request_id, timestamp,
                                            aduid, draws, now)]
    /\ UNCHANGED <<file, signers>>

CallVerifySignature(s, url, expected_signature, timestamp, request_id) ==
    /\ signers[s].pc = "ready"
    /\ ret = NoCall
    /\ ret' = [op |-> "verify_signature", signer |-> s, url |-> url,
               expected_signature |-> expected_signature, timestamp |-> timestamp,
               request_id |-> request_id,
               result |-> verify_signature(url, expected_signature, timestamp, request_id)]
    /\ UNCHANGED <<file, signers>>

\* the caller takes the returned value
Return ==
    /\ ret # NoCall
    /\ ret' = NoCall
    /\ UNCHANGED <<file, signers>>

----------------------------------------------------------------------------
\* What the specification says the functions compute (spec.md 4.1, 4.3, 4.4)

RECURSIVE EncodeQuotes(_)
\* every single quote of s percent-encoded, nothing else changed
EncodeQuotes(s) ==
    IF Len(s) = 0 THEN <<>>
    ELSE LET last == s[Len(s)]
         IN EncodeQuotes(SubSeq(s, 1, Len(s) - 1)) \o
            (IF last = "'" THEN <<"%", "2", "7">> ELSE <<last>>)

\* the canonical form: the text up to the first '?' untouched, the rest encoded
canonicalize(url) ==
    IF \A i \in 1..Len(url) : url[i] # "?" THEN url
    ELSE LET q == CHOOSE i \in 1..Len(url) : url[i] = "?" /\ \A j \in 1..(i - 1) : url[j] # "?"
         IN SubSeq(url, 1, q) \o EncodeQuotes(SubSeq(url, q + 1, Len(url)))

computeSignature(url, t, r) == sha1(canonicalize(url) \o <<" ">> \o t \o <<" ">> \o r)

LowerHex == {"0", "1", "2", "3", "4", "5", "6", "7", "8", "9", "a", "b", "c", "d", "e", "f"}

\* 36 characters, 8-4-4-4-12: hyphens at the character positions 8, 13, 18, 23
\* (counted from 0) and lowercase hexadecimal digits everywhere else
WellFormedId(x) ==
    /\ Len(x) = 36
    /\ \A i \in 1..Len(x) : IF i \in {9, 14, 19, 24} THEN x[i] = "-" ELSE x[i] \in LowerHex

\* x with one character changed: a letter to its capital, a digit to another
UpperOf(c) ==
    CASE c = "a" -> "A" [] c = "b" -> "B" [] c = "c" -> "C" [] c = "d" -> "D"
      [] c = "e" -> "E" [] c = "f" -> "F" [] c = "0" -> "1" [] OTHER -> "0"

OtherOf(c) == IF c = "f" THEN "0" ELSE "f"

\* the signatures a caller may expect: the right one, each single-character
\* change of it, the empty string
ExpectedSignatures(url, t, r) ==
    LET sig == computeSignature(url, t, r)
    IN {sig, <<>>}
       \cup {[sig EXCEPT ![p] = UpperOf(sig[p])] : p \in 1..Len(sig)}
       \cup {[sig EXCEPT ![p] = OtherOf(sig[p])] : p \in 1..Len(sig)}

----------------------------------------------------------------------------
\* Concurrent constructions against one file, with calls on constructed signers

SmallUrls == {<<"a">>, <<"a", "?", "b", "=", "'", "c", "'">>}

Init ==
    /\ file \in InitialFiles
    /\ signers = [s \in Signers |-> NewSigner]
    /\ ret = NoCall

GenerateHeadersSmall ==
    /\ ret = NoCall
    /\ \E s \in Signers, url \in SmallUrls, request_id \in {NoneValue, Some(FixedRequestId)},
          timestamp \in {NoneValue, Some(FixedTimestamp)}, aduid \in {NoneValue, Some(FixedAduid)},
          draws \in {DrawsOf(1, 0)}, now \in ClockValues :
           CallGenerateHeaders(s, url, request_id, timestamp, aduid, draws, now)

VerifySignatureSmall ==
    /\ ret = NoCall
    /\ \E s \in Signers, url \in SmallUrls,
          expected \in {computeSignature(<<"a">>, FixedTimestamp, FixedRequestId)} :
           CallVerifySignature(s, url, expected, FixedTimestamp, FixedRequestId)

Next ==
    \/ \E s \in Signers : OpenRead(s)
    \/ \E s \in Signers : Read(s)
    \/ \E s \in Signers : Generate(s)
    \/ \E s \in Signers : OpenWrite(s)
    \/ \E s \in Signers : Write(s)
    \/ GenerateHeadersSmall
    \/ VerifySignatureSmall
    \/ Return

Spec == Init /\ [][Next]_vars

----------------------------------------------------------------------------
\* The same, one operation at a time

NextSeq ==
    \/ \E s \in Signers : Quiescent /\ OpenRead(s)
    \/ \E s \in Signers : Read(s)
    \/ \E s \in Signers : Generate(s)
    \/ \E s \in Signers : OpenWrite(s)
    \/ \E s \in Signers : Write(s)
    \/ Quiescent /\ GenerateHeadersSmall
    \/ Quiescent /\ VerifySignatureSmall
    \/ Return

SpecSeq == Init /\ [][NextSeq]_vars

----------------------------------------------------------------------------
\* generate_headers and verify_signature over all the inputs, on constructed
\* signers

InitSign ==
    /\ file = [state |-> "present", content |-> StoredAduid]
    /\ signers \in [Signers -> {ReadySigner(StoredAduid), ReadySigner(_generate_uuid(DrawsOf(1, 0)))}]
    /\ ret = NoCall

GenerateHeadersAll ==
    /\ ret = NoCall
    /\ \E s \in Signers, url \in Urls, request_id \in RequestIdArgs, timestamp \in TimestampArgs,
          aduid \in AduidArgs, draws \in RandomSources, now \in ClockValues :
           CallGenerateHeaders(s, url, request_id, timestamp, aduid, draws, now)

VerifySignatureAll ==
    /\ ret = NoCall
    /\ \E s \in Signers, url \in Urls, timestamp \in ModelTimestamps, request_id \in ModelRequestIds :
           \E expected \in ExpectedSignatures(url, timestamp, request_id) :
               CallVerifySignature(s, url, expected, timestamp, request_id)

NextSign == GenerateHeadersAll \/ VerifySignatureAll \/ Return

SpecSign == InitSign /\ [][NextSign]_vars

----------------------------------------------------------------------------
\* The URL preprocessing alone, over every URL of up to MaxUrlLen characters

UrlAlphabet == {"a", "?", "'", "%"}

AllUrls == UNION {[1..n -> UrlAlphabet] : n \in 0..MaxUrlLen}

InitPure ==
    /\ file = [state |-> "absent", content |-> <<>>]
    /\ signers = [s \in Signers |-> NewSigner]
    /\ ret = NoCall

CallProcessedUrl ==
    /\ ret = NoCall
    /\ \E url \in AllUrls :
           ret' = [op |-> "processed_url", url |-> url, result |-> processed_url(url)]
    /\ UNCHANGED <<file, signers>>

NextCanon == CallProcessedUrl \/ Return

SpecCanon == InitPure /\ [][NextCanon]_vars

----------------------------------------------------------------------------
\* The identifier generator alone, over a family of random sources

CallGenerateUuid ==
    /\ ret = NoCall
    /\ \E a \in 0..MaxStride, b \in 0..15 :
           ret' = [op |-> "_generate_uuid", draws |-> DrawsOf(a, b),
                   result |-> _generate_uuid(DrawsOf(a, b))]
    /\ UNCHANGED <<file, signers>>

NextUuid == CallGenerateUuid \/ Return

SpecUuid == InitPure /\ [][NextUuid]_vars

----------------------------------------------------------------------------
\* Properties

QuotedUrl == <<"a", "?", "b", "=", "'", "c", "'">>

\* C1: the X-Signature generate_headers returns is the hash of the canonical
\* URL, the returned X-Timestamp and the returned X-Request-Id joined by single
\* spaces, and a supplied request_id or timestamp (the empty string included)
\* is returned as given.
C1_SignatureOfReturnedTriple ==
    ret.op = "generate_headers" =>
        LET h == ret.headers
        IN /\ h["X-Signature"] =
                  sha1(canonicalize(ret.url) \o <<" ">> \o h["X-Timestamp"] \o <<" ">> \o h["X-Request-Id"])
           /\ ret.request_id.some => h["X-Request-Id"] = ret.request_id.val
           /\ ret.timestamp.some => h["X-Timestamp"] = ret.timestamp.val

\* a call with the empty string as request_id, no timestamp and quotes in the query
C1_Witness ==
    /\ ret.op = "generate_headers"
    /\ ret.request_id = Some(<<>>)
    /\ ret.timestamp = NoneValue
    /\ ret.url = QuotedUrl
    /\ ret.headers["X-Request-Id"] = <<>>

\* C3: verify_signature returns a record whose match is TRUE exactly when the
\* expected signature is the string computeSignature(url, t, r); a signature
\* that differs in one character, by case too, gives match = FALSE.
C3_MatchIffEqual ==
    ret.op = "verify_signature" =>
        /\ ret.result.match \in BOOLEAN
        /\ ret.result.match <=>
               (ret.expected_signature = computeSignature(ret.url, ret.timestamp, ret.request_id))

\* the expected signature is the right one with one letter capitalised
C3_Witness ==
    /\ ret.op = "verify_signature"
    /\ ret.result.match = FALSE
    /\ LET sig == computeSignature(ret.url, ret.timestamp, ret.request_id)
       IN /\ Len(ret.expected_signature) = Len(sig)
          /\ \E p \in 1..Len(sig) :
                /\ sig[p] \in {"a", "b", "c", "d", "e", "f"}
                /\ ret.expected_signature = [sig EXCEPT ![p] = UpperOf(sig[p])]

C8_SignStringIsHashed ==
    ret.op = "verify_signature" =>
        /\ ret.result.sign_string =
               canonicalize(ret.url) \o <<" ">> \o ret.timestamp \o <<" ">> \o ret.request_id
        /\ sha1(ret.result.sign_string) = ret.result.calculated_signature

\* C5: the URL that is signed is the URL itself if it has no '?', and else the
\* text up to the first '?' untouched followed by the rest with every single
\* quote as %27; a URL with no quote after its first '?' is unchanged, and
\* preprocessing the result again changes nothing.
C5_CanonicalForm ==
    ret.op = "processed_url" =>
        /\ ret.result = canonicalize(ret.url)
        /\ (\A i \in 1..Len(ret.url) :
                ret.url[i] = "'" => \A j \in 1..i : ret.url[j] # "?") => ret.result = ret.url
        /\ processed_url(ret.result) = ret.result

\* a quote in the base path, a quote in the query and a second '?'
C5_Witness ==
    /\ ret.op = "processed_url"
    /\ ret.url = <<"'", "?", "'", "?">>
    /\ ret.result = <<"'", "?", "%", "2", "7", "?">>

\* C6: the identifier is 36 characters, the 32 digits drawn, as lowercase
\* hexadecimal digits in draw order, with hyphens at the character positions
\* 8, 13, 18 and 23 and nowhere else.
C6_IdentifierFormat ==
    ret.op = "_generate_uuid" =>
        /\ WellFormedId(ret.result)
        /\ Len(ret.result) = 36
        /\ ret.result[36] # "-"
        /\ LET digits == SelectSeq(ret.result, LAMBDA c : c # "-")
           IN /\ Len(digits) = 32
              /\ \A i \in 1..32 : digits[i] = HexChars[ret.draws[i] + 1]

\* an identifier with letters and digits
C6_Witness ==
    /\ ret.op = "_generate_uuid"
    /\ ret.draws = DrawsOf(3, 5)
    /\ \E i \in 1..Len(ret.result) : ret.result[i] = "f"
    /\ \E i \in 1..Len(ret.result) : ret.result[i] = "0"

Ready(s) == signers[s].pc = "ready"

GeneratedIds == {_generate_uuid(d) : d \in RandomSources}

\* C2: with one operation at a time, every constructed signer holds the same
\* device identifier, the one in the file; generate_headers without an aduid
\* argument returns it; a constructed signer never changes, and no call
\* changes the file or a signer.
C2_State ==
    /\ \A s \in Signers, t \in Signers :
           Ready(s) /\ Ready(t) => signers[s].x_aduid = signers[t].x_aduid
    /\ \A s \in Signers :
           Ready(s) => /\ file.state = "present"
                       /\ signers[s].x_aduid = Some(strip(file.content))
    /\ (ret.op = "generate_headers" /\ ~ret.aduid.some) =>
           \A s \in Signers : Ready(s) => ret.headers["X-Aduid"] = signers[s].x_aduid.val

C2_Step ==
    /\ \A s \in Signers : Ready(s) => signers'[s] = signers[s]
    /\ (\E s \in Signers : Ready(s)) => file' = file
    /\ (ret' # ret) => (file' = file /\ signers' = signers)

C2_OneIdentifier == []C2_State /\ [][C2_Step]_vars

\* the second signer was constructed after the first had generated and stored
\* an identifier, and a call returned that identifier
C2_Witness ==
    /\ \A s \in Signers : Ready(s)
    /\ \E s \in Signers, t \in Signers :
           /\ s # t
           /\ signers[s].new_aduid.some
           /\ ~signers[t].new_aduid.some
           /\ ret.op = "generate_headers"
           /\ ret.signer = t
           /\ ~ret.aduid.some
           /\ ret.headers["X-Aduid"] = signers[s].new_aduid.val

\* C7: a file that cannot be read for another reason than being absent fails
\* the construction: the signer is never constructed, nothing is generated and
\* the file is left as it is; an identifier is generated only by a signer
\* that found the file absent.
C7_State ==
    /\ \A s \in Signers :
           signers[s].pc = "failed" => ~signers[s].x_aduid.some /\ ~signers[s].new_aduid.some
    /\ file.state = "denied" =>
           \A s \in Signers : /\ signers[s].pc \in {"idle", "failed"}
                              /\ ~signers[s].x_aduid.some
                              /\ ~signers[s].new_aduid.some

C7_Step ==
    /\ file.state = "denied" => file' = file
    /\ \A s \in Signers :
           /\ (signers[s].pc = "idle" /\ signers'[s].pc # "idle" /\ file.state = "denied")
                  => signers'[s].pc = "failed"
           /\ signers[s].pc = "failed" => signers'[s] = signers[s]
           /\ (signers'[s].pc = "not_found" /\ signers[s].pc # "not_found")
                  => file.state = "absent"
           /\ signers'[s].new_aduid # signers[s].new_aduid => signers[s].pc = "not_found"
    /\ file' # file => \E s \in Signers : signers[s].pc \in {"generated", "writing"}

C7_UnreadableStoreFails == []C7_State /\ [][C7_Step]_vars

\* every construction against the unreadable file has failed
C7_Witness ==
    /\ file.state = "denied"
    /\ \A s \in Signers : signers[s].pc = "failed"

\* C9: nothing stops a signer that found the file absent from generating and
\* writing; each write replaces what the file holds with the writer's own
\* identifier, and the writer keeps its own identifier whatever the file
\* holds afterwards.
C9_State ==
    \A s \in Signers :
        /\ signers[s].pc = "not_found" => ENABLED Generate(s)
        /\ signers[s].pc = "generated" => ENABLED OpenWrite(s)
        /\ signers[s].pc = "writing" => ENABLED Write(s)
        /\ (Ready(s) /\ signers[s].new_aduid.some) => signers[s].x_aduid = signers[s].new_aduid

C9_Step ==
    \A s \in Signers :
        (signers[s].pc = "writing" /\ signers'[s].pc = "ready")
            => file' = [state |-> "present", content |-> signers[s].new_aduid.val]

C9_LastWriterWins == []C9_State /\ [][C9_Step]_vars

\* two signers both found the file absent, both generated and both wrote: they
\* hold different identifiers and the file holds the one written last
C9_Witness ==
    \E s \in Signers, t \in Signers :
        /\ Ready(s) /\ Ready(t)
        /\ signers[s].new_aduid.some /\ signers[t].new_aduid.some
        /\ signers[s].x_aduid # signers[t].x_aduid
        /\ file.content = signers[t].x_aduid.val
        /\ file.content # signers[s].x_aduid.val

\* C10: every constructed signer holds a well-formed identifier that a signer
\* generated or that the file held at the start.
C10_ConstructedIdWellFormed ==
    \A s \in Signers :
        Ready(s) => /\ WellFormedId(signers[s].x_aduid.val)
                    /\ signers[s].x_aduid.val \in GeneratedIds \cup {StoredAduid}

====
